---- MODULE Spec2Model ----
(***************************************************************************)
(* Cartesian Genetic Programming core of MO_NAS: the genotype              *)
(* (cgp.Individual), its reachability walk and mutation engine, the Pareto *)
(* ranking (CGP.fast_non_dominated_sort), the evaluator boundary           *)
(* (Evaluator.__call__ / improved) and the evolution loop (CGP.run).       *)
(*                                                                         *)
(* Python objects live in a heap: an Individual is a record of references, *)
(* its gene list and its active mask are heap cells, so that aliasing      *)
(* between a parent and its clones is something the model can express.     *)
(* Python's 0-based positions are kept in the names (node, slot i); the    *)
(* TLA+ sequences that hold them are 1-based, hence the "+ 1" in lookups.  *)
(* Locals are reset when their call returns, and an object is reclaimed    *)
(* when the last reference the program can still read is dropped.          *)
(***************************************************************************)
EXTENDS Integers, Sequences, FiniteSets, TLC

(* ------------------------------ bounds -------------------------------- *)

\* largest grid (rows * cols) of the genotype specification
MaxNodes == 2
\* largest level_back of the genotype specification
MaxLevelBack == 2
\* largest population handed to the sort
MaxPop == 4
\* largest score and largest total_params of an individual of that population
MaxObjective == 2
\* largest max_epochs handed to CGP.run
MaxEpochs == 2
\* largest score the trainer reports
MaxScore == 3

(* --------------------------- program constants ------------------------ *)

\* CgpConfig.num_input
num_input == 1
\* CgpConfig.num_output
num_output == 1
\* CGP.__init__: children=2, the largest number of children of the run specification
DefaultChildren == 2

\* Python's None, where a reference is expected (self.active = None)
NoRef == -1
\* Python's None, where a number is expected (self.score = None)
NoVal == -1
\* an unbound local that would hold a mask (old_net when force is false)
NoMask == <<>>
\* Python's None, where a model is expected (self.model = None); a model is told
\* by the evaluator call that built it, <<epoch, child_number>>
NoModel == <<>>

VARIABLES
    cfg,          \* the CgpConfig shared by every Individual
    args,         \* CGP's children and run's max_epochs and force_mutate
    trainer,      \* evaluator.trainer: its comp and its worst
    ind,          \* heap of Individual objects: id -> record of fields (live: allocated)
    genesHeap,    \* heap of gene lists: reference -> sequence of Gen records
    activeHeap,   \* heap of active masks: reference -> sequence of booleans
    mpc,          \* position inside Individual.mutate
    mself,        \* the Individual mutate was called on
    mforce,       \* mutate's force argument
    old_net,      \* mutate's local old_net
    cnt,          \* mutate's local cnt
    idx,          \* mutate's local idx
    entry_active, \* history: the active mask when the outermost mutate was entered
    spc,          \* position inside CGP.fast_non_dominated_sort
    pop,          \* its argument non_sort_genomes: the (score, total_params) of each
    S,            \* its local S
    n,            \* its local n
    rank,         \* its local rank
    front,        \* its local front, and its result
    fi,           \* its local i
    epc,          \* position inside Evaluator.__call__
    ecall,        \* its arguments child, child_number, epoch
    models,       \* Evaluator.models: child_number -> cached model
    rpc,          \* position inside CGP.run
    parent,       \* CGP.parent
    children,     \* run's local children
    current_epoch,\* run's local current_epoch
    ci,           \* run's local i of "for i in range(self.num_children)"
    mutated,      \* run's local mutated
    sidx,         \* run's local idx of "for idx, child in enumerate(children)"
    notified,     \* the calls of evaluator.improved made by the last step
    gen_count,    \* history: the passes of run's while loop begun so far
    evalLog,      \* history: run's evaluator calls of this pass, <<child_number, epoch>>
    start_score,  \* history: the parent's score when this pass began
    seen,         \* history: the scores of the children scanned in this pass
    allWorst      \* history: every child evaluation so far returned the worst tuple

confVars == <<cfg, args, trainer>>
heapVars == <<ind, genesHeap, activeHeap>>
mutVars == <<mpc, mself, mforce, old_net, cnt, idx, entry_active>>
sortVars == <<spc, pop, S, n, rank, front, fi>>
evalVars == <<epc, ecall, models>>
runVars == <<rpc, parent, children, current_epoch, ci, mutated, sidx>>
histVars == <<notified, gen_count, evalLog, start_score, seen, allWorst>>
vars == <<confVars, heapVars, mutVars, sortVars, evalVars, runVars, histVars>>

(* ------------------------------ CgpConfig ----------------------------- *)

RECURSIVE SeqMax(_)
SeqMax(s) ==
    IF Len(s) = 1 THEN s[1]
    ELSE LET m == SeqMax(Tail(s)) IN IF s[1] > m THEN s[1] ELSE m

\* CgpConfig.__init__: the derived fields
CgpConfig(rows, cols, level_back, function_inputs, rate_pct) ==
    [rows |-> rows, cols |-> cols, level_back |-> level_back,
     num_nodes |-> rows * cols,
     function_inputs |-> function_inputs,
     num_func_genes |-> Len(function_inputs),
     max_inputs |-> SeqMax(function_inputs),
     mutation_rate |-> rate_pct]

Min(a, b) == IF a < b THEN a ELSE b

\* the number of genes of an Individual: len(self.genes)
NumGenes(c) == c.num_nodes + num_output

\* int(num_genes * self.config.mutation_rate), the rate held in percent
Budget(c) == (NumGenes(c) * c.mutation_rate) \div 100

(* --------------------------- grid topology ---------------------------- *)

\* the column of a gene position: min(node // rows, cols)
Col(c, node) == Min(node \div c.rows, c.cols)

\* max_con_id (exclusive)
MaxConId(c, node) == Col(c, node) * c.rows + num_input

\* min_con_id
MinConId(c, node) ==
    IF Col(c, node) - c.level_back >= 0
    THEN (Col(c, node) - c.level_back) * c.rows + num_input
    ELSE 0

\* a draw that may return max_con_id itself
ConnectionDrawsInclusive(c, node) == MinConId(c, node) .. MaxConId(c, node)
\* min_con_id + np.random.randint(max_con_id - min_con_id): the values it can draw
ConnectionDraws(c, node) == MinConId(c, node) .. (MaxConId(c, node) - 1)

(* ------------------------------- genes -------------------------------- *)

\* OutputGen has no fnc_idx attribute
NoFnc == -1

\* FunctionGen(fnc_idx, max_inputs, num_inputs) with its inputs array filled
FunctionGen(c, fnc_idx, inputs) ==
    [fnc_idx |-> fnc_idx, inputs |-> inputs,
     num_inputs |-> c.function_inputs[fnc_idx + 1], is_output |-> FALSE]

\* OutputGen(max_inputs) with its inputs array filled: Gen.__init__ sets num_inputs = 1
OutputGen(c, inputs) ==
    [fnc_idx |-> NoFnc, inputs |-> inputs, num_inputs |-> 1, is_output |-> TRUE]

\* every gene init_genes can build at one position: a random function for a grid
\* node, and every slot of the inputs array (all max_inputs of them) drawn in range
InitGeneChoices(c, node) ==
    LET ins == [1..c.max_inputs -> ConnectionDraws(c, node)]
    IN  IF node < c.num_nodes
        THEN {FunctionGen(c, f, i) : f \in 0..(c.num_func_genes - 1), i \in ins}
        ELSE {OutputGen(c, i) : i \in ins}

RECURSIVE InitGeneLists(_, _)
\* the gene lists init_genes can build for positions 0 .. len-1
InitGeneLists(c, len) ==
    IF len = 0 THEN {<<>>}
    ELSE {Append(g, x) : g \in InitGeneLists(c, len - 1), x \in InitGeneChoices(c, len - 1)}

(* ---------------------------- reachability ---------------------------- *)

RECURSIVE WalkToOut(_, _, _)
RECURSIVE WalkInputs(_, _, _, _)
RECURSIVE WalkAllSlots(_, _, _, _)
\* a walk that follows every slot of the inputs array, used or not
WalkAllSlots(act, g, node, i) ==
    IF i >= Len(g[node + 1].inputs) THEN act
    ELSE LET con == g[node + 1].inputs[i + 1]
             a1 == IF con >= num_input THEN WalkToOut(act, g, con - num_input) ELSE act
         IN  WalkAllSlots(a1, g, node, i + 1)

\* the for loop of __walk_to_out over slots i .. num_inputs-1 of gene node
WalkInputs(act, g, node, i) ==
    IF i >= g[node + 1].num_inputs THEN act
    ELSE LET con == g[node + 1].inputs[i + 1]
             a1 == IF con >= num_input THEN WalkToOut(act, g, con - num_input) ELSE act
         IN  WalkInputs(a1, g, node, i + 1)

\* Individual.__walk_to_out
WalkToOut(act, g, node) ==
    IF act[node + 1] THEN act
    ELSE WalkInputs([act EXCEPT ![node + 1] = TRUE], g, node, 0)

RECURSIVE WalkOutputs(_, _, _, _)
\* the for loop of check_active over the output genes
WalkOutputs(act, g, c, node) ==
    IF node >= num_output THEN act
    ELSE WalkOutputs(WalkToOut(act, g, c.num_nodes + node), g, c, node + 1)

\* Individual.check_active: the mask it leaves in self.active
CheckActive(c, g) == WalkOutputs([k \in 1..Len(g) |-> FALSE], g, c, 0)

(* ------------------------------ the heap ------------------------------ *)

\* object ids: the parent and the children of one generation are all that is ever
\* reachable at once; an Individual's gene list and mask get the cells of its id
IndIds == 0..DefaultChildren

\* Individual.__init__: self.genes = [] is a cell of its own, self.active = None
NewIndividual(gref) ==
    [live |-> TRUE, genes |-> gref, active |-> NoRef, score |-> NoVal, model |-> NoModel,
     total_params |-> NoVal, accuracy |-> NoVal]

\* a heap slot that holds no object
NoInd ==
    [live |-> FALSE, genes |-> NoRef, active |-> NoRef, score |-> NoVal,
     model |-> NoModel, total_params |-> NoVal, accuracy |-> NoVal]

Genes(s) == genesHeap[ind[s].genes]
Active(s) == activeHeap[ind[s].active]

\* Individual.is_spawned
IsSpawned(s) == ind[s].live /\ ind[s].active /= NoRef

\* the slot a new object is put in
FreeSlot == CHOOSE s \in IndIds : ~ind[s].live /\ \A t \in IndIds : ~ind[t].live => s <= t

\* the heap after Individual(config) at slot s followed by init_genes building g
SpawnedHeap(s, g) ==
    /\ ind' = [ind EXCEPT ![s] = [NewIndividual(s) EXCEPT !.active = s]]
    /\ genesHeap' = [genesHeap EXCEPT ![s] = g]
    /\ activeHeap' = [activeHeap EXCEPT ![s] = CheckActive(cfg, g)]

\* instance.genes = copy(self.genes) would share the Gen objects
ShallowCopyRef(fresh, shared) == shared
\* instance.genes = deepcopy(self.genes): the copy's gene list is a cell of its own
DeepCopyRef(fresh, shared) == fresh

\* Individual.clone: the heap after src.clone() is put at slot s
ClonedHeap(src, s) ==
    /\ ind' = [ind EXCEPT ![s] =
                  [live |-> TRUE, genes |-> DeepCopyRef(s, ind[src].genes), active |-> s,
                   score |-> ind[src].score, model |-> ind[src].model,
                   total_params |-> ind[src].total_params,
                   accuracy |-> ind[src].accuracy]]
    /\ genesHeap' = [genesHeap EXCEPT ![s] = Genes(src)]
    /\ activeHeap' = [activeHeap EXCEPT ![s] = Active(src)]

(* -------------------------- Individual.mutate ------------------------- *)

\* a mutate that takes whatever the first pass gives
MustRetryNever(force, act, old) == FALSE
\* "if force: if np.array_equal(self.active, old_net)"
MustRetry(force, act, old) == force /\ act = old

\* the locals of mutate(force) once it is entered on s, whose mask is act
EnterMutate(s, force, act) ==
    /\ mpc' = "pick"
    /\ mself' = s
    /\ mforce' = force
    /\ old_net' = IF force THEN act ELSE NoMask
    /\ cnt' = 0
    /\ idx' = 0
    /\ entry_active' = act

\* the locals of mutate end with the call
LeaveMutate ==
    /\ mpc' = "idle"
    /\ mforce' = FALSE
    /\ old_net' = NoMask
    /\ cnt' = 0
    /\ idx' = 0
    /\ entry_active' = NoMask
    /\ mself' = 0

\* idx = np.random.randint(0, num_genes)
PickGene ==
    /\ mpc = "pick"
    /\ \E i \in 0..(NumGenes(cfg) - 1) :
        /\ idx' = i
        /\ mpc' = IF i < cfg.num_nodes THEN "fn" ELSE "conn"
    /\ UNCHANGED <<mself, mforce, old_net, cnt, entry_active>>
    /\ UNCHANGED <<confVars, heapVars, sortVars, evalVars, runVars, histVars>>

\* the gene __mutate_function_gene leaves: new fnc_idx, num_inputs of that function
SetFunction(c, gene, fnc_idx) ==
    [gene EXCEPT !.fnc_idx = fnc_idx, !.num_inputs = c.function_inputs[fnc_idx + 1]]

\* __mutate_function_gene: one draw of fnc_idx; a draw equal to the current
\* function goes round the while loop again, any other is stored and counted
MutateFunctionGene ==
    /\ mpc = "fn"
    /\ \E f \in 0..(cfg.num_func_genes - 1) :
        IF f = Genes(mself)[idx + 1].fnc_idx
        THEN UNCHANGED <<heapVars, mutVars>>
        ELSE /\ genesHeap' = [genesHeap EXCEPT ![ind[mself].genes][idx + 1] =
                                  SetFunction(cfg, @, f)]
             /\ cnt' = cnt + 1
             /\ mpc' = "conn"
             /\ UNCHANGED <<ind, activeHeap, mself, mforce, old_net, idx, entry_active>>
    /\ UNCHANGED <<confVars, sortVars, evalVars, runVars, histVars>>

\* the slots __mutate_connection_gene scans: range(self.genes[gene_idx].num_inputs)
ScannedSlots(gene) == 0..(gene.num_inputs - 1)

\* the values the resampling loop can end with: in range and not the current one
Resamples(c, node, cur) == ConnectionDraws(c, node) \ {cur}

\* the while test of mutate
LoopAgain(c, k) == k <= Budget(c)

\* what follows one pass of the while body, with gene list g and counter k: the
\* loop again, or check_active and then return or, forced with an unchanged mask,
\* the recursive self.mutate(force), which takes old_net and cnt afresh
AfterBody(g, k) ==
    /\ genesHeap' = [genesHeap EXCEPT ![ind[mself].genes] = g]
    /\ IF LoopAgain(cfg, k)
       THEN /\ cnt' = k
            /\ mpc' = "pick"
            /\ UNCHANGED <<activeHeap, old_net>>
       ELSE LET act == CheckActive(cfg, g)
            IN  /\ activeHeap' = [activeHeap EXCEPT ![ind[mself].active] = act]
                /\ IF MustRetry(mforce, act, old_net)
                   THEN /\ mpc' = "pick"
                        /\ old_net' = act
                        /\ cnt' = 0
                   ELSE /\ mpc' = "done"
                        /\ cnt' = k
                        /\ UNCHANGED old_net
    /\ UNCHANGED <<ind, mself, mforce, idx, entry_active>>

\* __mutate_connection_gene followed by the rest of the while body. The coins
\* decide the first slot i whose coin says mutate (i = num_inputs: none does);
\* a range of one value changes nothing whatever the coins say.
MutateConnectionGene ==
    /\ mpc = "conn"
    /\ LET g == Genes(mself)
           gene == g[idx + 1]
       IN  \E i \in 0..gene.num_inputs :
            IF i \in ScannedSlots(gene) /\ MaxConId(cfg, idx) - MinConId(cfg, idx) > 1
            THEN \E new \in Resamples(cfg, idx, gene.inputs[i + 1]) :
                    AfterBody([g EXCEPT ![idx + 1].inputs[i + 1] = new], cnt + 1)
            ELSE AfterBody(g, cnt)
    /\ UNCHANGED <<confVars, sortVars, evalVars, runVars, histVars>>

(* ------------------ the genotype on its own: a caller ------------------ *)

\* Individual(config)
Construct(s) ==
    /\ mpc = "idle"
    /\ ~ind[s].live
    /\ ind' = [ind EXCEPT ![s] = NewIndividual(s)]
    /\ genesHeap' = [genesHeap EXCEPT ![s] = <<>>]
    /\ UNCHANGED activeHeap
    /\ UNCHANGED <<confVars, mutVars, sortVars, evalVars, runVars, histVars>>

\* Individual.spawn(config): __init__ then init_genes, which ends in check_active
Spawn(s) ==
    /\ mpc = "idle"
    /\ ~ind[s].live
    /\ \E g \in InitGeneLists(cfg, NumGenes(cfg)) : SpawnedHeap(s, g)
    /\ UNCHANGED <<confVars, mutVars, sortVars, evalVars, runVars, histVars>>

\* mutate(force) is entered: an Individual without genes gets init_genes first
CallMutate(s, force) ==
    /\ mpc = "idle"
    /\ ind[s].live
    /\ IF IsSpawned(s)
       THEN /\ EnterMutate(s, force, Active(s))
            /\ UNCHANGED heapVars
       ELSE \E g \in InitGeneLists(cfg, NumGenes(cfg)) :
            /\ SpawnedHeap(s, Genes(s) \o g)
            /\ EnterMutate(s, force, CheckActive(cfg, Genes(s) \o g))
    /\ UNCHANGED <<confVars, sortVars, evalVars, runVars, histVars>>

\* mutate returns to its caller
MutateReturn ==
    /\ mpc = "done"
    /\ LeaveMutate
    /\ UNCHANGED <<confVars, heapVars, sortVars, evalVars, runVars, histVars>>

(* -------------------- CGP.fast_non_dominated_sort -------------------- *)

\* the populations: individual p (1-based here, p - 1 in the code) is known to the
\* sort by its score and its total_params only, and by its identity, which is p
Populations ==
    UNION {[1..k -> [score : 0..MaxObjective, total_params : 0..MaxObjective]] :
            k \in 0..MaxPop}

\* a test that lacks the third disjunct: with equal total_params nothing dominates
DominatesByCost(a, b) == a.score >= b.score /\ a.total_params < b.total_params
\* the condition of the if (and, with p and q swapped, of the elif) of the double loop
Dominates(a, b) ==
    \/ a.score > b.score /\ a.total_params < b.total_params
    \/ a.score >= b.score /\ a.total_params < b.total_params
    \/ a.score > b.score /\ a.total_params <= b.total_params

RECURSIVE DominatedList(_, _, _)
\* S[p] after the inner loop over q = k .. len-1: q is appended unless already in
DominatedList(P, p, k) ==
    IF k > Len(P) THEN <<>>
    ELSE IF Dominates(P[p], P[k])
         THEN <<k>> \o DominatedList(P, p, k + 1)
         ELSE DominatedList(P, p, k + 1)

\* n[p] after the inner loop: the q that take the elif branch
DominationCount(P, p) ==
    Cardinality({q \in 1..Len(P) : ~Dominates(P[p], P[q]) /\ Dominates(P[q], P[p])})

RECURSIVE FirstFront(_, _, _)
\* front[0] after the outer loop over p = k .. len-1
FirstFront(P, cntOf, k) ==
    IF k > Len(P) THEN <<>>
    ELSE IF cntOf[k] = 0
         THEN <<k>> \o FirstFront(P, cntOf, k + 1)
         ELSE FirstFront(P, cntOf, k + 1)

\* the call and lines 386-413: S, n, rank and front[0]
SortCall ==
    /\ spc = "idle"
    /\ \E P \in Populations :
        /\ pop' = P
        /\ S' = [p \in 1..Len(P) |-> DominatedList(P, p, 1)]
        /\ n' = [p \in 1..Len(P) |-> DominationCount(P, p)]
        /\ rank' = [p \in 1..Len(P) |-> 0]
        /\ front' = <<FirstFront(P, [p \in 1..Len(P) |-> DominationCount(P, p)], 1)>>
    /\ fi' = 0
    /\ spc' = "peel"
    /\ UNCHANGED <<confVars, heapVars, mutVars, evalVars, runVars, histVars>>

InSeq(x, s) == \E k \in 1..Len(s) : s[k] = x

\* a test that also fires on a count that went below zero
ReachesZeroOrBelow(v) == v <= 0
\* "if (n[q] == 0)": the test that puts q into the next front
ReachesZero(v) == v = 0

RECURSIVE PeelInner(_, _, _)
\* the loop "for q in range(0, len(S))" from q on, for one p of the front:
\* st holds n, rank and Q
PeelInner(st, q, i) ==
    IF q > Len(st.n) THEN st
    ELSE LET v == st.n[q] - 1
             hit == ReachesZero(v)
         IN  PeelInner([n |-> [st.n EXCEPT ![q] = v],
                        rank |-> IF hit THEN [st.rank EXCEPT ![q] = i + 1] ELSE st.rank,
                        Q |-> IF hit /\ ~InSeq(q, st.Q) THEN Append(st.Q, q) ELSE st.Q],
                       q + 1, i)

RECURSIVE PeelOuter(_, _, _, _)
\* the loop "for p in front[i]" from the k-th member on
PeelOuter(st, F, k, i) ==
    IF k > Len(F) THEN st
    ELSE PeelOuter(PeelInner(st, 1, i), F, k + 1, i)

\* one pass of "while (front[i] != [])": Q is built and appended
PeelFront ==
    /\ spc = "peel"
    /\ front[fi + 1] /= <<>>
    /\ LET st == PeelOuter([n |-> n, rank |-> rank, Q |-> <<>>], front[fi + 1], 1, fi)
       IN  /\ n' = st.n
           /\ rank' = st.rank
           /\ front' = Append(front, st.Q)
    /\ fi' = fi + 1
    /\ UNCHANGED <<spc, pop, S>>
    /\ UNCHANGED <<confVars, heapVars, mutVars, evalVars, runVars, histVars>>

\* the while loop ends; del front[len(front) - 1]; return front
SortReturn ==
    /\ spc = "peel"
    /\ front[fi + 1] = <<>>
    /\ front' = SubSeq(front, 1, Len(front) - 1)
    /\ spc' = "returned"
    /\ UNCHANGED <<pop, S, n, rank, fi>>
    /\ UNCHANGED <<confVars, heapVars, mutVars, evalVars, runVars, histVars>>

(* ------------------------ evaluator and trainer ----------------------- *)

\* trainer.comp(parent_score, child_score) and trainer.worst, which the evaluator
\* is constructed with: a trainer whose higher score wins, and one whose lower
\* score wins; either way no score is better than its worst
Trainers == {[comp |-> "gt", worst |-> 0], [comp |-> "lt", worst |-> MaxScore]}

Comp(t, parent_score, child_score) ==
    IF t.comp = "gt" THEN child_score > parent_score ELSE child_score < parent_score

\* what self.trainer(model, epoch) can return when it returns a score; run only
\* stores and prints total_params and accuracy
TrainerResults == [score : 0..MaxScore, total_params : {1}, accuracy : {1}]

\* "return self.trainer.worst, self.trainer.worst, self.trainer.worst, self.trainer.worst"
WorstResult(t) ==
    [score |-> t.worst, total_params |-> t.worst, model |-> <<t.worst>>,
     accuracy |-> t.worst]

\* "return score, total_params, model, accuracy", the model being the one this call built
ScoredResult(r, call) ==
    [score |-> r.score, total_params |-> r.total_params,
     model |-> <<call.epoch, call.child_number>>, accuracy |-> r.accuracy]

NoCall == [child |-> NoRef, child_number |-> 0, epoch |-> 0]

\* evaluator(child, index, epoch) is entered
EnterEvaluator(child, child_number, epoch) ==
    /\ epc' = "body"
    /\ ecall' = [child |-> child, child_number |-> child_number, epoch |-> epoch]

\* __evaluator_wrapper: the four fields of the child are written
SetFitness(rec, res) ==
    [rec EXCEPT !.score = res.score, !.total_params = res.total_params,
                !.model = res.model, !.accuracy = res.accuracy]

\* "if model is None" and "if score is None": child.mutate() (force defaults to
\* True) and then the evaluator calls itself with the same arguments
EvalRetry ==
    /\ epc = "body"
    /\ mpc = "idle"
    /\ EnterMutate(ecall.child, TRUE, Active(ecall.child))
    /\ epc' = "mutating"
    /\ UNCHANGED <<ecall, models>>
    /\ UNCHANGED <<confVars, heapVars, sortVars, runVars, histVars>>

\* child.mutate() has returned: "return self(child, child_number, epoch)"
EvalAgain ==
    /\ epc = "mutating"
    /\ mpc = "done"
    /\ LeaveMutate
    /\ epc' = "body"
    /\ UNCHANGED <<ecall, models>>
    /\ UNCHANGED <<confVars, heapVars, sortVars, runVars, histVars>>

(* ------------------------------- CGP.run ------------------------------ *)

\* what run does when __evaluator_wrapper has written res on the evaluated
\* Individual, the heap being h: after the parent's evaluation the while loop is
\* reached; after a child's, "children[i] = mutated" and the for loop goes on
AfterEvaluation(res) ==
    /\ ind' = [ind EXCEPT ![ecall.child] = SetFitness(@, res)]
    /\ UNCHANGED <<genesHeap, activeHeap>>
    /\ epc' = "idle"
    /\ ecall' = NoCall
    /\ notified' = <<>>
    /\ IF rpc = "bootstrap"
       THEN /\ rpc' = "loop"
            /\ current_epoch' = 0
            /\ UNCHANGED <<parent, children, ci, mutated, sidx>>
       ELSE /\ children' = [children EXCEPT ![ci + 1] = mutated]
            /\ mutated' = NoRef
            /\ IF ci + 1 < args.num_children
               THEN /\ ci' = ci + 1
                    /\ rpc' = "clone"
                    /\ sidx' = sidx
               ELSE /\ ci' = 0
                    /\ rpc' = "select"
                    /\ sidx' = 0
            /\ UNCHANGED <<parent, current_epoch>>

\* the except branch of Evaluator.__call__: the worst tuple is returned
EvalFail ==
    /\ epc = "body"
    /\ AfterEvaluation(WorstResult(trainer))
    /\ UNCHANGED models
    /\ UNCHANGED <<gen_count, evalLog, start_score, seen, allWorst>>
    /\ UNCHANGED <<confVars, mutVars, sortVars>>

\* the model is built and trained: it is cached under child_number and returned
EvalSuccess ==
    /\ epc = "body"
    /\ \E r \in TrainerResults :
        /\ models' = [models EXCEPT ![ecall.child_number] =
                         <<ecall.epoch, ecall.child_number>>]
        /\ AfterEvaluation(ScoredResult(r, ecall))
    /\ allWorst' = (allWorst /\ rpc = "bootstrap")
    /\ UNCHANGED <<gen_count, evalLog, start_score, seen>>
    /\ UNCHANGED <<confVars, mutVars, sortVars>>

\* run is entered with self.parent None: Individual.spawn, then the evaluator on
\* the parent with index 0 and epoch 0
RunStart ==
    /\ rpc = "init"
    /\ parent = NoRef
    /\ \E g \in InitGeneLists(cfg, NumGenes(cfg)) : SpawnedHeap(FreeSlot, g)
    /\ parent' = FreeSlot
    /\ rpc' = "bootstrap"
    /\ EnterEvaluator(FreeSlot, 0, 0)
    /\ notified' = <<>>
    /\ UNCHANGED <<children, current_epoch, ci, mutated, sidx, models>>
    /\ UNCHANGED <<gen_count, evalLog, start_score, seen, allWorst>>
    /\ UNCHANGED <<confVars, mutVars, sortVars>>

\* what the file named by CGP's parent argument can hold: nothing (no name given,
\* or no such file), a pickled Individual of this configuration with its score
\* set or left None, or an object of another class with a score attribute or not
ParentFiles ==
    {[kind |-> "none", genes |-> <<>>, score |-> NoVal]}
    \cup [kind : {"individual"}, genes : InitGeneLists(cfg, NumGenes(cfg)),
          score : (0..MaxScore) \cup {NoVal}]
    \cup [kind : {"other"}, genes : {<<>>}, score : {0, NoVal}]

\* '"... %.4f" % (filename, instance.score)' raises unless the score is a number
Printable(score) == score /= NoVal

\* the Individual pickle.load builds from file f: a scored one carries the fields
\* its last evaluation wrote
LoadedIndividual(f, s) ==
    [live |-> TRUE, genes |-> s, active |-> s, score |-> f.score,
     model |-> IF f.score = NoVal THEN NoModel ELSE <<0, 0>>,
     total_params |-> IF f.score = NoVal THEN NoVal ELSE 1,
     accuracy |-> IF f.score = NoVal THEN NoVal ELSE 1]

\* CGP.__init__: self.parent = self.load_parent(parent). The print of the score
\* comes before the isinstance test; an exception it raises leaves __init__
LoadParent ==
    /\ rpc = "new"
    /\ \E f \in ParentFiles :
        IF f.kind = "none"
        THEN /\ rpc' = "init"
             /\ UNCHANGED <<parent, heapVars>>
        ELSE IF ~Printable(f.score)
        THEN /\ rpc' = "aborted"
             /\ UNCHANGED <<parent, heapVars>>
        ELSE IF f.kind = "other"
        THEN /\ rpc' = "init"
             /\ UNCHANGED <<parent, heapVars>>
        ELSE /\ rpc' = "init"
             /\ parent' = FreeSlot
             /\ ind' = [ind EXCEPT ![FreeSlot] = LoadedIndividual(f, FreeSlot)]
             /\ genesHeap' = [genesHeap EXCEPT ![FreeSlot] = f.genes]
             /\ activeHeap' = [activeHeap EXCEPT ![FreeSlot] = CheckActive(cfg, f.genes)]
    /\ notified' = <<>>
    /\ UNCHANGED <<children, current_epoch, ci, mutated, sidx>>
    /\ UNCHANGED <<gen_count, evalLog, start_score, seen, allWorst>>
    /\ UNCHANGED <<confVars, mutVars, sortVars, evalVars>>

\* run is entered with self.parent set: "if self.parent is None" is false, and
\* "current_epoch = 0" follows
RunAdopt ==
    /\ rpc = "init"
    /\ parent /= NoRef
    /\ rpc' = "loop"
    /\ current_epoch' = 0
    /\ notified' = <<>>
    /\ UNCHANGED <<parent, children, ci, mutated, sidx>>
    /\ UNCHANGED <<gen_count, evalLog, start_score, seen, allWorst>>
    /\ UNCHANGED <<confVars, heapVars, mutVars, sortVars, evalVars>>

\* "while current_epoch < max_epochs": a pass begins, or run returns
WhileTest ==
    /\ rpc = "loop"
    /\ IF current_epoch < args.max_epochs
       THEN /\ rpc' = "clone"
            /\ ci' = 0
            /\ gen_count' = gen_count + 1
            /\ evalLog' = <<>>
            /\ start_score' = ind[parent].score
            /\ seen' = <<>>
       ELSE /\ rpc' = "done"
            /\ UNCHANGED <<ci, gen_count, evalLog, start_score, seen>>
    /\ notified' = <<>>
    /\ UNCHANGED <<parent, children, current_epoch, mutated, sidx, allWorst>>
    /\ UNCHANGED <<confVars, heapVars, mutVars, sortVars, evalVars>>

\* "mutated = self.parent.clone()" and the call "mutated.mutate(force_mutate)"
CloneChild ==
    /\ rpc = "clone"
    /\ mpc = "idle"
    /\ ClonedHeap(parent, FreeSlot)
    /\ mutated' = FreeSlot
    /\ EnterMutate(FreeSlot, args.force_mutate, Active(parent))
    /\ rpc' = "child_mutate"
    /\ notified' = <<>>
    /\ UNCHANGED <<parent, children, current_epoch, ci, sidx>>
    /\ UNCHANGED <<gen_count, evalLog, start_score, seen, allWorst>>
    /\ UNCHANGED <<confVars, sortVars, evalVars>>

\* mutate has returned: the evaluator is called on the clone with i + 1 and
\* current_epoch + 1
EvaluateChild ==
    /\ rpc = "child_mutate"
    /\ mpc = "done"
    /\ LeaveMutate
    /\ EnterEvaluator(mutated, ci + 1, current_epoch + 1)
    /\ evalLog' = Append(evalLog, <<ci + 1, current_epoch + 1>>)
    /\ rpc' = "child_eval"
    /\ notified' = <<>>
    /\ UNCHANGED <<parent, children, current_epoch, ci, mutated, sidx, models>>
    /\ UNCHANGED <<gen_count, start_score, seen, allWorst>>
    /\ UNCHANGED <<confVars, heapVars, sortVars>>

\* a comparison with the arguments the other way round
BetterSwapped(t, parent_score, child_score) ==
    child_score > 0 /\ Comp(t, child_score, parent_score)
\* "if (child.score > 0): if evaluator.trainer.comp(self.parent.score, child.score)"
Better(t, parent_score, child_score) ==
    child_score > 0 /\ Comp(t, parent_score, child_score)

\* the index 0-based, as enumerate gives it
ImprovedIndexAsEnumerated(k) == k
\* the first argument of "evaluator.improved(idx + 1, child.score)"
ImprovedIndex(k) == k + 1

\* a comparison against the parent the pass began with
IncumbentAtStart(now, atStart) == atStart
\* the score the child is compared with: that of self.parent as it is now
Incumbent(now, atStart) == now

\* "self.parent.model.to_json()" works on a model, not on the worst number
HasToJson(model) == Len(model) = 2

\* the heap once the last reference to Individual s is dropped: the object, its
\* gene list and its mask are gone
Reclaimed(s) ==
    /\ ind' = [ind EXCEPT ![s] = NoInd]
    /\ genesHeap' = [genesHeap EXCEPT ![s] = <<>>]
    /\ activeHeap' = [activeHeap EXCEPT ![s] = <<>>]

\* one pass of the body of "for idx, child in enumerate(children)", which ends in
\* "current_epoch += 1". A better child becomes self.parent; its model.to_json()
\* raises if the model is the worst number, and Evaluator.improved raises if
\* nothing is cached under the index it is given: either exception ends run.
SelectChild ==
    /\ rpc = "select"
    /\ LET child == children[sidx + 1]
           key == ImprovedIndex(sidx)
           last == sidx + 1 = args.num_children
       IN  /\ seen' = Append(seen, ind[child].score)
           /\ children' = [children EXCEPT ![sidx + 1] = NoRef]
           /\ IF Better(trainer, Incumbent(ind[parent].score, start_score),
                        ind[child].score)
              THEN /\ parent' = child
                   /\ Reclaimed(parent)
                   /\ IF ~HasToJson(ind[child].model) \/ key \notin DOMAIN models
                         \/ models[key] = NoModel
                      THEN /\ rpc' = "aborted"
                           /\ notified' = <<>>
                           /\ UNCHANGED <<current_epoch, sidx>>
                      ELSE /\ notified' = <<[child_number |-> key,
                                             score |-> ind[child].score,
                                             model |-> models[key]]>>
                           /\ current_epoch' = current_epoch + 1
                           /\ sidx' = IF last THEN 0 ELSE sidx + 1
                           /\ rpc' = IF last THEN "loop" ELSE "select"
              ELSE /\ UNCHANGED parent
                   /\ Reclaimed(child)
                   /\ notified' = <<>>
                   /\ current_epoch' = current_epoch + 1
                   /\ sidx' = IF last THEN 0 ELSE sidx + 1
                   /\ rpc' = IF last THEN "loop" ELSE "select"
    /\ UNCHANGED <<ci, mutated>>
    /\ UNCHANGED <<gen_count, evalLog, start_score, allWorst>>
    /\ UNCHANGED <<confVars, mutVars, sortVars, evalVars>>

(* ----------------------------- idle values ---------------------------- *)

\* the heap before any Individual is made
HeapEmpty ==
    /\ ind = [s \in IndIds |-> NoInd]
    /\ genesHeap = [s \in IndIds |-> <<>>]
    /\ activeHeap = [s \in IndIds |-> <<>>]

\* no mutate call is on the stack
MutateIdle ==
    /\ mpc = "idle"
    /\ mself = 0
    /\ mforce = FALSE
    /\ old_net = NoMask
    /\ cnt = 0
    /\ idx = 0
    /\ entry_active = NoMask

\* no sort call is on the stack
SortIdle ==
    /\ spc = "idle"
    /\ pop = <<>>
    /\ S = <<>>
    /\ n = <<>>
    /\ rank = <<>>
    /\ front = <<>>
    /\ fi = 0

\* Evaluator.__init__: self.models = {}
EvaluatorIdle ==
    /\ epc = "idle"
    /\ ecall = NoCall
    /\ models = [k \in 0..DefaultChildren |-> NoModel]

\* CGP.__init__ without a parent file: self.parent = None; run not entered (pc)
RunLocals(pc) ==
    /\ rpc = pc
    /\ parent = NoRef
    /\ children = [k \in 1..DefaultChildren |-> NoRef]
    /\ current_epoch = 0
    /\ ci = 0
    /\ mutated = NoRef
    /\ sidx = 0
    /\ notified = <<>>
    /\ gen_count = 0
    /\ evalLog = <<>>
    /\ start_score = NoVal
    /\ seen = <<>>
    /\ allWorst = TRUE

\* the run arguments when run is never entered: the defaults of the signatures
NoRun ==
    /\ args = [num_children |-> DefaultChildren, max_epochs |-> 0, force_mutate |-> TRUE]
    /\ trainer = [comp |-> "gt", worst |-> 0]
    /\ EvaluatorIdle
    /\ RunLocals("off")

(* -------------------- specification of the genotype -------------------- *)

\* function_inputs: a set with both arities, one with equal arities, one function
FunctionSets == {<<1, 2>>, <<1, 1>>, <<1>>}

\* mutation_rate, in percent: the default 0.1, and 0.5
MutationRates == {10, 50}

GenoConfigs ==
    {CgpConfig(r, c, l, f, m) :
        r \in 1..MaxNodes, c \in 1..MaxNodes, l \in 1..MaxLevelBack,
        f \in FunctionSets, m \in MutationRates}

GenoInit ==
    /\ cfg \in {c \in GenoConfigs : c.num_nodes <= MaxNodes}
    /\ HeapEmpty
    /\ MutateIdle
    /\ SortIdle
    /\ NoRun

\* p = Individual(config) or p = Individual.spawn(config)
CallConstruct == Construct(0)
CallSpawn == Spawn(0)
\* p.mutate(force)
CallMutateOn == \E force \in BOOLEAN : CallMutate(0, force)

GenoNext ==
    \/ CallConstruct
    \/ CallSpawn
    \/ CallMutateOn
    \/ PickGene
    \/ MutateFunctionGene
    \/ MutateConnectionGene
    \/ MutateReturn

SpecGeno == GenoInit /\ [][GenoNext]_vars

(* ---------------------- specification of the sort ---------------------- *)

SortInit ==
    /\ cfg = CgpConfig(1, 1, 1, <<1>>, 10)
    /\ HeapEmpty
    /\ MutateIdle
    /\ SortIdle
    /\ NoRun

SortNext ==
    \/ SortCall
    \/ PeelFront
    \/ SortReturn

SpecSort == SortInit /\ [][SortNext]_vars

(* ----------------------- specification of the run ---------------------- *)

\* one column of two rows, two functions of one input, the default mutation_rate
RunConfigs == {CgpConfig(2, 1, 1, <<1, 1>>, 10)}

\* CGP(config, children) and run(evaluator, max_epochs, force_mutate)
RunArgs ==
    [num_children : 1..DefaultChildren, max_epochs : 0..MaxEpochs,
     force_mutate : BOOLEAN]

RunInit ==
    /\ cfg \in RunConfigs
    /\ args \in RunArgs
    /\ trainer \in Trainers
    /\ HeapEmpty
    /\ MutateIdle
    /\ SortIdle
    /\ EvaluatorIdle
    /\ RunLocals("init")

RunNext ==
    \/ RunStart
    \/ WhileTest
    \/ CloneChild
    \/ PickGene
    \/ MutateFunctionGene
    \/ MutateConnectionGene
    \/ EvaluateChild
    \/ EvalRetry
    \/ EvalAgain
    \/ EvalFail
    \/ EvalSuccess
    \/ SelectChild

SpecRun == RunInit /\ [][RunNext]_vars

(* ------------- specification of the construction and the run ---------- *)

\* CGP(config, children=1, parent=file) and run(evaluator, max_epochs, force_mutate)
BootArgs == [num_children : {1}, max_epochs : 0..1, force_mutate : BOOLEAN]

BootInit ==
    /\ cfg \in RunConfigs
    /\ args \in BootArgs
    /\ trainer \in Trainers
    /\ HeapEmpty
    /\ MutateIdle
    /\ SortIdle
    /\ EvaluatorIdle
    /\ RunLocals("new")

BootNext ==
    \/ LoadParent
    \/ RunStart
    \/ RunAdopt
    \/ WhileTest
    \/ CloneChild
    \/ PickGene
    \/ MutateFunctionGene
    \/ MutateConnectionGene
    \/ EvaluateChild
    \/ EvalRetry
    \/ EvalAgain
    \/ EvalFail
    \/ EvalSuccess
    \/ SelectChild

SpecBoot == BootInit /\ [][BootNext]_vars

(* ------------------------- genotype properties ------------------------ *)

\* the live slots of a gene: 0 .. num_inputs-1
LiveSlots(gene) == 0..(gene.num_inputs - 1)

\* the grid column of the node a connection value refers to
SourceCol(c, con) == (con - num_input) \div c.rows

\* a connection value that refers to the external input, or to a grid node in a
\* strictly earlier column at most level_back columns back
RefersBack(c, node, con) ==
    \/ con \in 0..(num_input - 1)
    \/ /\ con - num_input \in 0..(c.num_nodes - 1)
       /\ SourceCol(c, con) < Col(c, node)
       /\ Col(c, node) - SourceCol(c, con) <= c.level_back

\* C1: at every moment after initialization, also in the middle of a mutation,
\* every live connection slot of every gene of a spawned genotype holds a value
\* of [min_id, max_id) of its position, and so refers only to the external input
\* or to a grid node in a strictly earlier column at most level_back columns back
C1_LiveConnectionsLegal ==
    \A s \in IndIds : IsSpawned(s) =>
        \A node \in 0..(NumGenes(cfg) - 1) :
            \A i \in LiveSlots(Genes(s)[node + 1]) :
                LET con == Genes(s)[node + 1].inputs[i + 1]
                IN  /\ MinConId(cfg, node) <= con
                    /\ con < MaxConId(cfg, node)
                    /\ RefersBack(cfg, node, con)

\* C1's case: a function mutation has just raised a gene's arity from 1 to 2 (of
\* the two functions, the one of arity 2 is the new one), so slot 1 is newly live,
\* and it refers to a grid node
C1_Witness ==
    /\ mpc = "conn"
    /\ idx < cfg.num_nodes
    /\ cfg.function_inputs = <<1, 2>>
    /\ Genes(mself)[idx + 1].fnc_idx = 1
    /\ Genes(mself)[idx + 1].num_inputs = 2
    /\ Genes(mself)[idx + 1].inputs[2] >= num_input
    /\ cnt = 1

\* C2: when mutate(force=True) returns, the active mask differs from the mask the
\* genotype had when the call was entered
C2_ForcedMutateChangesMask ==
    (mpc = "done" /\ mforce) => Active(mself) /= entry_active

\* C2's case: a forced mutate has returned
C2_Witness ==
    /\ mpc = "done"
    /\ mforce
    /\ entry_active /= NoMask
    /\ Active(mself) /= entry_active

\* the genes that the live connections of the genes in from refer to
Sources(c, g, from) ==
    {k \in 0..(c.num_nodes - 1) :
        \E m \in from : \E i \in LiveSlots(g[m + 1]) : g[m + 1].inputs[i + 1] = k + num_input}

RECURSIVE BackwardClosure(_, _, _)
BackwardClosure(c, g, from) ==
    LET more == from \cup Sources(c, g, from)
    IN  IF more = from THEN from ELSE BackwardClosure(c, g, more)

\* the genes reachable from an output gene along live connections
Reachable(c, g) ==
    BackwardClosure(c, g, {c.num_nodes + o : o \in 0..(num_output - 1)})

\* C3: after spawn and after every return of mutate the active mask is exactly the
\* backward-reachability set of the genes: outputs are marked, and a function gene
\* is marked if and only if an output reaches it along live connections
C3_MaskIsReachability ==
    \A s \in IndIds :
        (IsSpawned(s) /\ (mpc \in {"idle", "done"} \/ mself /= s)) =>
            /\ \A k \in 0..(NumGenes(cfg) - 1) :
                Active(s)[k + 1] <=> k \in Reachable(cfg, Genes(s))
            /\ \A o \in 0..(num_output - 1) : Active(s)[cfg.num_nodes + o + 1]

\* C3's case: a mutate has returned on a genotype that has an unreachable function
\* gene holding a dead slot that refers to a grid node, and a reachable one
C3_Witness ==
    /\ mpc = "done"
    /\ \E k \in 0..(cfg.num_nodes - 1) : ~Active(mself)[k + 1]
    /\ \E k \in 0..(cfg.num_nodes - 1) :
        /\ Active(mself)[k + 1]
        /\ Genes(mself)[k + 1].num_inputs = 1
        /\ Len(Genes(mself)[k + 1].inputs) = 2
        /\ Genes(mself)[k + 1].inputs[2] >= num_input
        /\ ~Active(mself)[Genes(mself)[k + 1].inputs[2] - num_input + 1]

(* --------------------------- sort properties -------------------------- *)

\* Pareto dominance as the claim words it: at least as good on both objectives
\* (score up, total_params down) and strictly better on one
ParetoDominates(a, b) ==
    /\ a.score >= b.score
    /\ a.total_params <= b.total_params
    /\ (a.score > b.score \/ a.total_params < b.total_params)

SeqToSet(s) == {s[k] : k \in 1..Len(s)}

\* C8: for a population that is not empty, front 0 of the result is exactly the set
\* of individuals no other individual dominates, each listed once
C8_FrontZeroIsNonDominated ==
    (spc = "returned" /\ Len(pop) > 0) =>
        /\ Len(front) >= 1
        /\ SeqToSet(front[1]) =
            {p \in 1..Len(pop) : ~\E q \in 1..Len(pop) : ParetoDominates(pop[q], pop[p])}
        /\ Cardinality(SeqToSet(front[1])) = Len(front[1])

\* C8's case: the sort has returned on {score 0.9, cost 10}, {score 0.8, cost 5}
\* (as ranks: score 2 > 1, cost 2 > 1) followed by a copy of the first, which ties
\* with it on both objectives: all three are in front 0
C8_Witness ==
    /\ spc = "returned"
    /\ pop = <<[score |-> 2, total_params |-> 2], [score |-> 1, total_params |-> 1],
               [score |-> 2, total_params |-> 2]>>
    /\ front = <<(<<1, 2, 3>>)>>

\* the places (front, position) at which individual p is listed
Places(p) ==
    {<<k, j>> \in (1..Len(front)) \X (1..MaxPop + 1) : j <= Len(front[k]) /\ front[k][j] = p}

\* C9: no individual is ever listed twice in the fronts, every front but the one
\* under construction has a member (so the loop makes at most one pass per
\* individual and ends), and in the result every individual is listed exactly once
\* and no front is empty
C9_FrontsPartition ==
    /\ spc \in {"peel", "returned"} =>
        /\ \A p \in 1..Len(pop) : Cardinality(Places(p)) <= 1
        /\ \A k \in 1..(Len(front) - 1) : front[k] /= <<>>
        /\ Len(front) <= Len(pop) + 1
    /\ spc = "returned" =>
        /\ \A p \in 1..Len(pop) : Cardinality(Places(p)) = 1
        /\ \A k \in 1..Len(front) : front[k] /= <<>>

\* C9's case: the sort has returned on three individuals, two of them with equal
\* objective values and both dominated by the third: two fronts
C9_Witness ==
    /\ spc = "returned"
    /\ Len(pop) = 3
    /\ pop[1] = pop[2]
    /\ ParetoDominates(pop[3], pop[1])
    /\ Len(front) = 2
    /\ Len(front[2]) = 2

(* ---------------------------- run properties --------------------------- *)

\* all the program can read of Individual t: its fields, its genes, its mask
View(t) == <<ind[t], Genes(t), Active(t)>>

\* C4: a step of mutate on one Individual (a clone under run's mutate or under the
\* evaluator's extra mutate) leaves the genes, the active mask and the fields of
\* every other Individual as they were: of the parent it was cloned from and of
\* the other clone of that parent
C4_CloneIndependence ==
    [][\A t \in IndIds :
        (mpc \in {"pick", "fn", "conn"} /\ ind[t].live /\ t /= mself) =>
            View(t)' = View(t)]_vars

\* C4's case: the evaluator's extra mutate on the second clone has returned, and
\* the parent and its two clones have three different gene lists
C4_Witness ==
    /\ epc = "mutating"
    /\ mpc = "done"
    /\ rpc = "child_eval"
    /\ ci = 1
    /\ mself = mutated
    /\ Genes(mutated) /= Genes(parent)
    /\ Genes(children[1]) /= Genes(parent)
    /\ Genes(mutated) /= Genes(children[1])

RECURSIVE BestOf(_, _)
\* max(best, positive members of scores)
BestOf(best, scores) ==
    IF scores = <<>> THEN best
    ELSE BestOf(IF scores[1] > 0 /\ scores[1] > best THEN scores[1] ELSE best,
                Tail(scores))

\* C5: the children are scanned in ascending index order; a child replaces the
\* parent only if its score is positive and the comparator prefers it to the
\* score of the parent of that moment; and under "higher score wins" the parent
\* after a generation has the score max(original parent score, positive child scores)
C5_GreedyInOrder ==
    /\ []((trainer.comp = "gt" /\ rpc \in {"loop", "done"} /\ gen_count >= 1) =>
            ind[parent].score = BestOf(start_score, seen))
    /\ [][rpc = "select" =>
            /\ Len(seen') = sidx + 1
            /\ sidx' \in {sidx + 1, 0}
            /\ parent' /= parent =>
                /\ parent' = children[sidx + 1]
                /\ ind'[parent'].score > 0
                /\ Comp(trainer, ind[parent].score, ind'[parent'].score)]_vars

\* C5's case: parent 0.5 with children [0.6, 0.55] (as ranks 1 with [3, 2]) under
\* "higher score wins": the generation is over and the parent has score 0.6
C5_Witness ==
    /\ rpc = "loop"
    /\ trainer.comp = "gt"
    /\ start_score = 1
    /\ seen = <<3, 2>>
    /\ ind[parent].score = 3

\* C6: run makes max_epochs passes of the while loop before it returns; the
\* generation counter has advanced by one per pass; and in pass g the evaluator
\* was invoked once per clone, with the indexes 1..num_children and generation g
C6_OneGenerationPerEpoch ==
    /\ rpc = "done" => gen_count = args.max_epochs
    /\ rpc \in {"loop", "done"} => current_epoch = gen_count
    /\ rpc = "select" => evalLog = [k \in 1..args.num_children |-> <<k, gen_count>>]

\* C7: as long as every child evaluation has returned the worst tuple, no step
\* after the parent's own evaluation changes self.parent, its genes, its mask or
\* its fields, none issues evaluator.improved, and none ends run by an exception
C7_WorstNeverReplaces ==
    [][(allWorst' /\ rpc \notin {"init", "bootstrap"}) =>
        /\ parent' = parent
        /\ View(parent)' = View(parent)
        /\ notified' = <<>>
        /\ rpc' /= "aborted"]_vars

\* C7's case: run has returned after MaxEpochs generations of one child each, every
\* one of them evaluated to the worst tuple, under a trainer whose worst is positive
C7_Witness ==
    /\ rpc = "done"
    /\ allWorst
    /\ gen_count = MaxEpochs
    /\ trainer.worst > 0
    /\ ind[parent].score < trainer.worst

\* C10: a step of run issues evaluator.improved if and only if it replaces the
\* parent, and then once, with the index under which the new parent was evaluated
\* in this generation, with its score, and reading the model cached by that
\* evaluation
C10_ImprovedOncePerReplacement ==
    [][LET replaced == rpc = "select" /\ parent' /= parent
       IN  /\ replaced <=> notified' /= <<>>
           /\ replaced =>
                /\ Len(notified') = 1
                /\ notified'[1].child_number = sidx + 1
                /\ evalLog[sidx + 1][1] = notified'[1].child_number
                /\ ind'[parent'].model[2] = notified'[1].child_number
                /\ notified'[1].score = ind'[parent'].score
                /\ notified'[1].model = ind'[parent'].model]_vars

\* C10's case: both children of a generation have replaced the parent in turn, and
\* the second replacement has just been notified
C10_Witness ==
    /\ Len(seen) = 2
    /\ notified /= <<>>
    /\ notified[1].child_number = 2
    /\ seen[1] > 0
    /\ Comp(trainer, start_score, seen[1])
    /\ Comp(trainer, seen[1], seen[2])
    /\ ind[parent].score = seen[2]
    /\ notified[1].model = <<1, 2>>

(* ------------------------- bootstrap properties ----------------------- *)

\* C11: the construction succeeds whatever the parent file holds; run spawns a
\* fresh parent and evaluates it with index 0 and generation 0 when no parent was
\* supplied or the supplied one has no score, and otherwise adopts the supplied
\* parent as it is without evaluating it; the parent has a score at every Select
C11_Bootstrap ==
    [][/\ rpc = "new" => rpc' = "init"
       /\ (rpc = "init" /\ (parent = NoRef \/ ind[parent].score = NoVal)) =>
            /\ rpc' = "bootstrap"
            /\ ind'[parent'].live /\ ind'[parent'].active /= NoRef
            /\ epc' = "body"
            /\ ecall' = [child |-> parent', child_number |-> 0, epoch |-> 0]
       /\ (rpc = "init" /\ parent /= NoRef /\ ind[parent].score /= NoVal) =>
            /\ rpc' = "loop"
            /\ parent' = parent
            /\ View(parent)' = View(parent)
            /\ epc' = "idle"
       /\ rpc' = "select" => ind'[parent'].score /= NoVal]_vars

(* ------------------------- evaluator properties ----------------------- *)

\* C12: whatever happens in the body of Evaluator.__call__, the call returns there
\* and then, without an exception reaching run and with the genotype it was handed
\* unchanged: it leaves on the child either the model this call has built or, after
\* a failure (no model decoded, training failed, no score), the worst tuple
C12_FailureReturnsWorst ==
    [][epc = "body" =>
        /\ epc' = "idle"
        /\ rpc' /= "aborted"
        /\ genesHeap'[ind'[ecall.child].genes] = Genes(ecall.child)
        /\ \/ ind'[ecall.child].model = <<ecall.epoch, ecall.child_number>>
           \/ ind'[ecall.child] = SetFitness(ind[ecall.child], WorstResult(trainer))]_vars

(* --------------------------- peeling properties ------------------------ *)

\* the front (1-based) in which individual p is listed; 0 if in none
FrontOf(p) ==
    IF \E k \in 1..Len(front) : InSeq(p, front[k])
    THEN CHOOSE k \in 1..Len(front) : InSeq(p, front[k])
    ELSE 0

\* the individuals that dominate p
Dominators(p) == {q \in 1..Len(pop) : ParetoDominates(pop[q], pop[p])}

RECURSIVE ReferenceRank(_)
\* the front the reference non-dominated sort puts p in: one below the lowest of
\* the individuals that dominate it
ReferenceRank(p) ==
    IF Dominators(p) = {} THEN 1
    ELSE 1 + CHOOSE r \in 1..Len(pop) :
                /\ \E q \in Dominators(p) : ReferenceRank(q) = r
                /\ \A q \in Dominators(p) : ReferenceRank(q) <= r

\* C13: the result is that of the reference non-dominated sort: every returned
\* front is a set of mutually non-dominated individuals, and an individual is in
\* a front below all the fronts of the individuals that dominate it, directly
\* below the lowest of them
C13_PeelsAsReference ==
    spc = "returned" =>
        /\ \A k \in 1..Len(front) : \A p, q \in SeqToSet(front[k]) :
                ~ParetoDominates(pop[p], pop[q])
        /\ \A p \in 1..Len(pop) : \A q \in Dominators(p) : FrontOf(q) < FrontOf(p)
        /\ \A p \in 1..Len(pop) : FrontOf(p) = ReferenceRank(p)

(* --------------------------- budget properties ------------------------- *)

\* round(num / den) as Python rounds: to the nearest integer, a half to the even one
Round(num, den) ==
    LET q == num \div den
        r == num % den
    IN  IF 2 * r < den THEN q
        ELSE IF 2 * r > den THEN q + 1
        ELSE IF q % 2 = 0 THEN q ELSE q + 1

\* C14: when a pass of mutate is over, the mutation events it has applied (function
\* reassignments and connection changes, counted by cnt) are exactly
\* round(mutation_rate * total_genes): none at all when that is 0
C14_ExactBudget ==
    mpc = "done" => cnt = Round(NumGenes(cfg) * cfg.mutation_rate, 100)

(* ---------------------- single-function properties --------------------- *)

\* C15: a function-gene mutation attempt always comes to an end, also when the
\* function set has one member: from every state in which the attempt is under
\* way, a step that ends it is possible
C15_FunctionAttemptEnds ==
    mpc = "fn" => ENABLED (MutateFunctionGene /\ mpc' /= "fn")

====
